---- MODULE Spec2Model ----
(***************************************************************************)
(* Region-selection controller of vibeReel1 (the resize-capable script,    *)
(* src/unnamed/part_000): two aspect-locked crop rectangles over a video,  *)
(* moved by their body and resized by corner handles, then submitted.      *)
(* The move-only script src/static/js/main.js follows at the end.          *)
(*                                                                         *)
(* The numbers of both scripts are JavaScript numbers: IEEE 754 binary64   *)
(* values, every operation rounding its exact result to the nearest one.   *)
(***************************************************************************)
EXTENDS Integers, FiniteSets, Sequences, TLC

VARIABLES
  videoWidth,      \* video.videoWidth  (0 while metadata is not available)
  videoHeight,     \* video.videoHeight (0 while metadata is not available)
  rectangles,      \* rectangles[1..2]: left, top, widthRatio, heightRatio
  minWidthRatio,   \* let minWidthRatio
  interaction,     \* let interaction (NoInteraction models null)
  captures,        \* pointer id -> element holding its pointer capture
  down,            \* pointer ids currently pressed
  disabled,        \* confirmButton.disabled
  feedback,        \* feedback element: message and status class
  calls,           \* the handleConfirm invocations awaiting the network
  nPresses,        \* pointerdown events delivered so far
  nLoads           \* loadedmetadata events delivered so far

vars == <<videoWidth, videoHeight, rectangles, minWidthRatio, interaction,
          captures, down, disabled, feedback, calls, nPresses, nLoads>>

geometry == <<videoWidth, videoHeight, rectangles, minWidthRatio>>
pointers == <<interaction, captures, down>>
submission == <<disabled, feedback, calls>>

\* how many pointerdown and loadedmetadata events a run delivers
MaxPresses == 2
MaxLoads == 1

(***************************************************************************)
(* The JavaScript number operators.  A number is an IEEE 754 binary64      *)
(* value [s, m, e]: the sign s (1, -1, or 0 for zero), the 53-bit mantissa *)
(* m as five limbs of 13 bits, lowest limb first, and the binary exponent  *)
(* e, so that the value is s * m * 2^e with 2^52 <= m < 2^53.  Every       *)
(* operator computes the exact result and rounds it to the nearest value,  *)
(* ties to even.  The numbers of the controller stay far from the          *)
(* subnormal and the infinite range and no operation of it yields NaN; the *)
(* sign of zero is not kept.  The value null is the record NULL.           *)
(***************************************************************************)
Abs(i) == IF i < 0 THEN -i ELSE i

limbBase == 2^13

\* limb i of a natural number (limbs, lowest first), 0 beyond its length
limb(a, i) == IF i >= 1 /\ i <= Len(a) THEN a[i] ELSE 0

\* the limbs of the number with the digits a[i..], which may lie outside
\* 0..limbBase-1, after the limbs acc
RECURSIVE carryLimbs(_, _, _, _)
carryLimbs(a, i, carry, acc) ==
  IF i > Len(a)
    THEN Append(acc, carry)
    ELSE carryLimbs(a, i + 1, (a[i] + carry - ((a[i] + carry) % limbBase)) \div limbBase,
                    Append(acc, (a[i] + carry) % limbBase))

longer(a, b) == IF Len(a) < Len(b) THEN Len(b) ELSE Len(a)
addLimbs(a, b) ==
  carryLimbs(SubSeq([i \in 1..longer(a, b) |-> limb(a, i) + limb(b, i)], 1, longer(a, b)),
             1, 0, <<>>)
\* a - b for a >= b
subLimbs(a, b) ==
  carryLimbs(SubSeq([i \in 1..longer(a, b) |-> limb(a, i) - limb(b, i)], 1, longer(a, b)),
             1, 0, <<>>)
\* a * n for 0 <= n < limbBase
scaleLimbs(a, n) == carryLimbs(SubSeq([i \in 1..Len(a) |-> a[i] * n], 1, Len(a)), 1, 0, <<>>)

\* a < b on the limbs 1..i
RECURSIVE lessFrom(_, _, _)
lessFrom(a, b, i) ==
  IF i = 0 THEN FALSE
  ELSE IF limb(a, i) = limb(b, i) THEN lessFrom(a, b, i - 1)
  ELSE limb(a, i) < limb(b, i)
lessLimbs(a, b) == lessFrom(a, b, longer(a, b))

\* the index of the highest limb of a that is not 0, from i down; 0 if none
RECURSIVE topLimb(_, _)
topLimb(a, i) == IF i = 0 \/ a[i] # 0 THEN i ELSE topLimb(a, i - 1)

\* a * 2^k and the n lowest limbs of a \div 2^k
shiftLeft(a, k) ==
  SubSeq([i \in 1..(Len(a) + (k \div 13) + 1) |->
            ((limb(a, i - (k \div 13)) * 2^(k % 13)) % limbBase)
              + (limb(a, i - (k \div 13) - 1) \div 2^(13 - (k % 13)))],
         1, Len(a) + (k \div 13) + 1)
shiftRight(a, k, n) ==
  SubSeq([i \in 1..n |->
            (limb(a, i + (k \div 13)) \div 2^(k % 13))
              + (limb(a, i + (k \div 13) + 1) % 2^(k % 13)) * 2^(13 - (k % 13))],
         1, n)

\* the number of significant bits of a limb v > 0
limbBits(v) ==
  IF v >= 2^6
    THEN IF v >= 2^10
           THEN IF v >= 2^12 THEN 13 ELSE IF v >= 2^11 THEN 12 ELSE 11
           ELSE IF v >= 2^8 THEN (IF v >= 2^9 THEN 10 ELSE 9)
                ELSE IF v >= 2^7 THEN 8 ELSE 7
    ELSE IF v >= 2^3
           THEN IF v >= 2^5 THEN 6 ELSE IF v >= 2^4 THEN 5 ELSE 4
           ELSE IF v >= 2^2 THEN 3 ELSE IF v >= 2 THEN 2 ELSE 1

\* bit k of a (bit 0 is the lowest) and whether a bit below bit k is set
bitAt(a, k) == (limb(a, (k \div 13) + 1) \div 2^(k % 13)) % 2
anyBelow(a, k) ==
  \/ \E i \in 1..(k \div 13) : limb(a, i) # 0
  \/ limb(a, (k \div 13) + 1) % 2^(k % 13) # 0

Zero == [s |-> 0, m |-> <<0, 0, 0, 0, 0>>, e |-> 0]
NULL == [s |-> 0, m |-> <<>>, e |-> 0]
IsNull(v) == v = NULL

\* the value with the mantissa m, or with 2^52 when rounding up carried
\* m to 2^53
normal(s, m, e) ==
  IF m[5] >= 2
    THEN [s |-> s, m |-> <<0, 0, 0, 0, 1>>, e |-> e + 1]
    ELSE [s |-> s, m |-> <<m[1], m[2], m[3], m[4], m[5]>>, e |-> e]

\* a has more than 53 bits: kept are its 53 highest, k bits are dropped
roundKept(s, a, e, inexact, k, kept) ==
  IF /\ bitAt(a, k - 1) = 1
     /\ inexact \/ anyBelow(a, k - 1) \/ kept[1] % 2 = 1
    THEN normal(s, carryLimbs(kept, 1, 1, <<>>), e + k)
    ELSE normal(s, kept, e + k)

\* a has len significant bits
roundBits(s, a, e, inexact, len) ==
  IF len <= 53
    THEN normal(s, shiftLeft(a, 53 - len), e - (53 - len))
    ELSE roundKept(s, a, e, inexact, len - 53, shiftRight(a, len - 53, 5))

roundFrom(s, a, e, inexact, top) ==
  IF top = 0 THEN Zero
  ELSE roundBits(s, a, e, inexact, 13 * (top - 1) + limbBits(a[top]))

\* the binary64 value nearest to s * (a + f) * 2^e, where 0 < f < 1 when
\* inexact and f = 0 otherwise; ties go to the even mantissa
round(s, a, e, inexact) == roundFrom(s, a, e, inexact, topLimb(a, Len(a)))

\* an integer below 2^31 in magnitude
Num(i) ==
  round(IF i < 0 THEN -1 ELSE 1,
        <<Abs(i) % limbBase, (Abs(i) \div limbBase) % limbBase,
          Abs(i) \div (limbBase * limbBase)>>, 0, FALSE)
One == Num(1)
Neg(x) == [x EXCEPT !.s = -x.s]

\* am * 2^e with the sign as plus bm * 2^e with the sign bs
combine(as, am, bs, bm, e) ==
  IF as = bs THEN round(as, addLimbs(am, bm), e, FALSE)
  ELSE IF lessLimbs(am, bm) THEN round(bs, subLimbs(bm, am), e, FALSE)
  ELSE round(as, subLimbs(am, bm), e, FALSE)

\* a + b for a.e >= b.e; b is below half a unit of a's last place when the
\* exponents are 56 or more apart
aligned(a, b) ==
  IF a.e - b.e >= 56 THEN a
  ELSE combine(a.s, shiftLeft(a.m, a.e - b.e), b.s, b.m, b.e)

sum(x, y) ==
  IF x.s = 0 THEN y
  ELSE IF y.s = 0 THEN x
  ELSE IF x.e >= y.e THEN aligned(x, y) ELSE aligned(y, x)

\* the product of two mantissas: the limb products summed by column, then
\* the carries
mulLimbs(a, b) ==
  carryLimbs(<<a[1] * b[1],
               a[1] * b[2] + a[2] * b[1],
               a[1] * b[3] + a[2] * b[2] + a[3] * b[1],
               a[1] * b[4] + a[2] * b[3] + a[3] * b[2] + a[4] * b[1],
               a[1] * b[5] + a[2] * b[4] + a[3] * b[3] + a[4] * b[2] + a[5] * b[1],
               a[2] * b[5] + a[3] * b[4] + a[4] * b[3] + a[5] * b[2],
               a[3] * b[5] + a[4] * b[4] + a[5] * b[3],
               a[4] * b[5] + a[5] * b[4],
               a[5] * b[5]>>, 1, 0, <<>>)

product(x, y) ==
  IF x.s = 0 \/ y.s = 0 THEN Zero
  ELSE round(x.s * y.s, mulLimbs(x.m, y.m), x.e + y.e, FALSE)

\* The long division of two mantissas.  d is the divisor times 2^12, five
\* limbs with d[5] >= limbBase / 2; a remainder is below d.

\* m * 2^12 for a mantissa m
shift12(m) ==
  <<(m[1] % 2) * 2^12, (m[1] \div 2) + (m[2] % 2) * 2^12, (m[2] \div 2) + (m[3] % 2) * 2^12,
    (m[3] \div 2) + (m[4] % 2) * 2^12, (m[4] \div 2) + (m[5] % 2) * 2^12>>

\* q * d, six limbs
scale5(d, q) ==
  LET t1 == d[1] * q
      t2 == d[2] * q + (t1 \div limbBase)
      t3 == d[3] * q + (t2 \div limbBase)
      t4 == d[4] * q + (t3 \div limbBase)
      t5 == d[5] * q + (t4 \div limbBase)
  IN  <<t1 % limbBase, t2 % limbBase, t3 % limbBase, t4 % limbBase, t5 % limbBase,
        t5 \div limbBase>>

\* the quotient of t by limbBase rounded down, for t >= -limbBase
carryOf(t) == ((t + limbBase) \div limbBase) - 1

\* rem * limbBase - p modulo limbBase^6, and as limb 7 the borrow: -1 when
\* p is the larger
subScaled(rem, p) ==
  LET t1 == 0 - p[1]
      t2 == rem[1] - p[2] + carryOf(t1)
      t3 == rem[2] - p[3] + carryOf(t2)
      t4 == rem[3] - p[4] + carryOf(t3)
      t5 == rem[4] - p[5] + carryOf(t4)
      t6 == rem[5] - p[6] + carryOf(t5)
  IN  <<t1 % limbBase, t2 % limbBase, t3 % limbBase, t4 % limbBase, t5 % limbBase,
        t6 % limbBase, carryOf(t6)>>

\* r + d modulo limbBase^6, and as limb 7 the borrow of r plus the carry
addBack(r, d) ==
  LET t1 == r[1] + d[1]
      t2 == r[2] + d[2] + (t1 \div limbBase)
      t3 == r[3] + d[3] + (t2 \div limbBase)
      t4 == r[4] + d[4] + (t3 \div limbBase)
      t5 == r[5] + d[5] + (t4 \div limbBase)
      t6 == r[6] + (t5 \div limbBase)
  IN  <<t1 % limbBase, t2 % limbBase, t3 % limbBase, t4 % limbBase, t5 % limbBase,
        t6 % limbBase, r[7] + (t6 \div limbBase)>>

\* the digit q and the remainder r = rem * limbBase - q * d; a digit that is
\* too large leaves a borrow, and is at most two too large
RECURSIVE settle(_, _, _)
settle(q, r, d) ==
  IF r[7] < 0 THEN settle(q - 1, addBack(r, d), d)
  ELSE [q |-> q, rem |-> r]
tryDigit(rem, d, q) == settle(q, subScaled(rem, scale5(d, q)), d)
divDigit(rem, d) ==
  IF (rem[5] * limbBase + rem[4]) \div d[5] >= limbBase
    THEN tryDigit(rem, d, limbBase - 1)
    ELSE tryDigit(rem, d, (rem[5] * limbBase + rem[4]) \div d[5])

\* the k next digits of rem / d before the digits found
RECURSIVE longDivide(_, _, _, _)
withDigit(step, d, digits, k) == longDivide(step.rem, d, <<step.q>> \o digits, k - 1)
longDivide(rem, d, digits, k) ==
  IF k = 0 THEN [q |-> digits, rem |-> rem]
  ELSE withDigit(divDigit(rem, d), d, digits, k)

\* n / d for n < 2 * d: the leading digit is 0 or 1
divide(n, d) ==
  IF lessLimbs(n, d) THEN longDivide(n, d, <<0>>, 5)
  ELSE longDivide(subLimbs(n, d), d, <<1>>, 5)

rounded(s, e, result) == round(s, result.q, e, topLimb(result.rem, 5) # 0)
quotient(x, y) ==
  IF x.s = 0 THEN Zero
  ELSE rounded(x.s * y.s, x.e - y.e - 65, divide(shift12(x.m), shift12(y.m)))

less(x, y) ==
  IF x.s # y.s THEN x.s < y.s
  ELSE IF x.s = 0 THEN FALSE
  ELSE IF x.s = 1 THEN x.e < y.e \/ (x.e = y.e /\ lessLimbs(x.m, y.m))
  ELSE y.e < x.e \/ (x.e = y.e /\ lessLimbs(y.m, x.m))

\* The operators of the language.  Each takes its operands as values: an
\* operand is computed before the operator's own steps begin.
Add(a, b) == CHOOSE v \in {sum(x, y) : x \in {a}, y \in {b}} : TRUE
Sub(a, b) == CHOOSE v \in {sum(x, Neg(y)) : x \in {a}, y \in {b}} : TRUE
Mul(a, b) == CHOOSE v \in {product(x, y) : x \in {a}, y \in {b}} : TRUE
Div(a, b) == CHOOSE v \in {quotient(x, y) : x \in {a}, y \in {b}} : TRUE
Lt(a, b) == \E x \in {a}, y \in {b} : less(x, y)
Le(a, b) == \E x \in {a}, y \in {b} : ~less(y, x)
MathMin(a, b) == CHOOSE v \in {IF less(y, x) THEN y ELSE x : x \in {a}, y \in {b}} : TRUE
MathMax(a, b) == CHOOSE v \in {IF less(x, y) THEN y ELSE x : x \in {a}, y \in {b}} : TRUE

\* the quotient n / d of two integers, and a decimal literal with that value
Q(n, d) == Div(Num(n), Num(d))

(***************************************************************************)
(* Module-level constants and helpers (part_000 lines 1-15).               *)
(***************************************************************************)
clamp(value, min, max) ==
  IF Lt(max, min) THEN min ELSE MathMin(MathMax(value, min), max)

TARGET_ASPECT_width == 1100
TARGET_ASPECT_height == 1000
TARGET_ASPECT_RATIO == Q(TARGET_ASPECT_width, TARGET_ASPECT_height)

HANDLE_POSITIONS == {"top-left", "top-right", "bottom-left", "bottom-right"}

Rects == {1, 2}
rectId(r) == IF r = 1 THEN "rect-speaker-1" ELSE "rect-speaker-2"
defaultLeft(r) == IF r = 1 THEN Q(5, 100) ELSE Q(6, 10)
defaultTop(r) == IF r = 1 THEN Q(1, 10) ELSE Q(55, 100)

initialRect == [left |-> NULL, top |-> NULL, widthRatio |-> Zero, heightRatio |-> Zero]
initialMinWidthRatio == Q(12, 100)
NoInteraction == [mode |-> "none"]
NoTarget == [rect |-> 0, part |-> "none"]

(***************************************************************************)
(* Inputs of the environment.                                              *)
(***************************************************************************)
\* natural sizes a loaded video may report; <<0, 0>> is "no video frame"
VideoSizes == {<<0, 0>>, <<1920, 1080>>, <<480, 270>>}
\* overlay.getBoundingClientRect(): laid out, or collapsed to nothing
Layouts == {[left |-> 1, top |-> 1, width |-> 4, height |-> 4],
            [left |-> 0, top |-> 0, width |-> 0, height |-> 0]}
\* <<clientX, clientY>> of pointermove events, in the layout's pixels: the
\* overlay's corners, its centre and the middle of its top edge
MovePoints == {<<1, 1>>, <<3, 1>>, <<5, 1>>, <<3, 3>>, <<1, 5>>, <<5, 5>>}
\* <<clientX, clientY>> of pointerdown events
PressPoints == {<<3, 3>>}
PointerIds == {0, 1}

(***************************************************************************)
(* getVideoMetrics and updateRectSizeFromVideo (lines 67-111).             *)
(***************************************************************************)
getVideoMetrics(vw, vh) ==
  IF vw = 0 \/ vh = 0
    THEN [known |-> FALSE, width |-> 0, height |-> 0]
    ELSE [known |-> TRUE, width |-> vw, height |-> vh]

computeMinWidthRatio(cropWidth) ==
  MathMin(MathMax(Mul(cropWidth, Q(5, 10)), Q(3, 100)),
          IF cropWidth = Zero THEN Q(12, 100) ELSE cropWidth)

\* sizeRect with the clamps of lines 105-106 run before lines 99-100 assign
\* the new size, so that they read the size the rectangle had before
sizeRectClampingFirst(rect, r, cropWidth, cropHeight) ==
  LET unset == IsNull(rect.left) \/ IsNull(rect.top)
      left0 == IF unset THEN defaultLeft(r) ELSE rect.left
      top0 == IF unset THEN defaultTop(r) ELSE rect.top
  IN  [left |-> clamp(left0, Zero, Sub(One, rect.widthRatio)),
       top |-> clamp(top0, Zero, Sub(One, rect.heightRatio)),
       widthRatio |-> cropWidth,
       heightRatio |-> cropHeight]

\* sizeRect with the policy of the commented-out lines 93-98: a rectangle that
\* already has a size keeps its width
sizeRectPreservingWidth(rect, r, cropWidth, cropHeight) ==
  LET unset == IsNull(rect.left) \/ IsNull(rect.top)
      left0 == IF unset THEN defaultLeft(r) ELSE rect.left
      top0 == IF unset THEN defaultTop(r) ELSE rect.top
      nosize == rect.widthRatio = Zero \/ rect.heightRatio = Zero
      width == IF nosize THEN cropWidth ELSE rect.widthRatio
      height == IF nosize THEN cropHeight ELSE Div(rect.widthRatio, TARGET_ASPECT_RATIO)
  IN  [left |-> clamp(left0, Zero, Sub(One, width)),
       top |-> clamp(top0, Zero, Sub(One, height)),
       widthRatio |-> width,
       heightRatio |-> height]

sizeRect(rect, r, cropWidth, cropHeight) ==
  LET unset == IsNull(rect.left) \/ IsNull(rect.top)
      left0 == IF unset THEN defaultLeft(r) ELSE rect.left
      top0 == IF unset THEN defaultTop(r) ELSE rect.top
  IN  [left |-> clamp(left0, Zero, Sub(One, cropWidth)),
       top |-> clamp(top0, Zero, Sub(One, cropHeight)),
       widthRatio |-> cropWidth,
       heightRatio |-> cropHeight]

\* updateRectSizeFromVideo with the sizing of the commented-out lines 84-86:
\* the target box scaled to fit the video, the height ratio derived from the
\* width ratio
updateRectSizeScaled(rects, mwr, vw, vh) ==
  IF vw = 0 \/ vh = 0
    THEN <<rects, mwr>>
    ELSE LET scale == MathMin(One, MathMin(Q(vw, TARGET_ASPECT_width),
                                           Q(vh, TARGET_ASPECT_height)))
             cropWidth == Div(Mul(Num(TARGET_ASPECT_width), scale), Num(vw))
             cropHeight == Div(cropWidth, TARGET_ASPECT_RATIO)
         IN  <<[r \in Rects |-> sizeRect(rects[r], r, cropWidth, cropHeight)],
               computeMinWidthRatio(cropWidth)>>

\* the new <<rectangles, minWidthRatio>>
updateRectSizeFromVideo(rects, mwr, vw, vh) ==
  IF vw = 0 \/ vh = 0
    THEN <<rects, mwr>>
    ELSE LET cropWidth == Q(TARGET_ASPECT_width, vw)
             cropHeight == Q(TARGET_ASPECT_height, vh)
         IN  <<[r \in Rects |-> sizeRect(rects[r], r, cropWidth, cropHeight)],
               computeMinWidthRatio(cropWidth)>>

\* the state after construction, for a video whose size is one of `sizes`
InitOn(sizes) ==
  /\ \E size \in sizes :
       /\ videoWidth = size[1]
       /\ videoHeight = size[2]
       /\ \E u \in {updateRectSizeFromVideo([r \in Rects |-> initialRect],
                                             initialMinWidthRatio, size[1], size[2])} :
            rectangles = u[1] /\ minWidthRatio = u[2]
  /\ interaction = NoInteraction
  /\ captures = [p \in PointerIds |-> NoTarget]
  /\ down = {}
  /\ disabled = FALSE
  /\ feedback = [message |-> "", status |-> "none"]
  /\ calls = <<>>
  /\ nPresses = 0
  /\ nLoads = 0

Init == InitOn(VideoSizes)

\* the loadedmetadata listener (lines 420-423), for a video reporting size
LoadedMetadata(size) ==
  /\ nLoads < MaxLoads
  /\ nLoads' = nLoads + 1
  /\ videoWidth' = size[1]
  /\ videoHeight' = size[2]
  /\ \E u \in {updateRectSizeFromVideo(rectangles, minWidthRatio, size[1], size[2])} :
       rectangles' = u[1] /\ minWidthRatio' = u[2]
  /\ UNCHANGED <<pointers, submission, nPresses>>

(***************************************************************************)
(* Pointer-down handlers (lines 124-177).  An event is a record            *)
(* [clientX, clientY, pointerId]; a handler returns the new interaction    *)
(* and captures, and whether it called event.stopPropagation().            *)
(***************************************************************************)
bodyOf(r) == [rect |-> r, part |-> "body"]
handleOf(r, handle) == [rect |-> r, part |-> handle]

\* element.setPointerCapture(pointerId)
setPointerCapture(caps, target, pointerId) == [caps EXCEPT ![pointerId] = target]

\* element.releasePointerCapture(pointerId): a capture the element does not
\* hold raises, which endDrag catches and ignores
releasePointerCapture(caps, target, pointerId) ==
  IF caps[pointerId] = target THEN [caps EXCEPT ![pointerId] = NoTarget] ELSE caps

pointerDown(rects, inter, caps, event, r) ==
  IF IsNull(rects[r].left) \/ IsNull(rects[r].top)
    THEN [interaction |-> inter, captures |-> caps, stopped |-> FALSE]
    ELSE [interaction |->
            [mode |-> "move",
             rect |-> r,
             start |-> [clientX |-> event.clientX,
                        clientY |-> event.clientY,
                        left |-> rects[r].left,
                        top |-> rects[r].top],
             pointerId |-> event.pointerId,
             capturedTarget |-> bodyOf(r)],
          captures |-> setPointerCapture(caps, bodyOf(r), event.pointerId),
          stopped |-> TRUE]

pointerDownResize(rects, inter, caps, vw, vh, event, r, handle) ==
  LET metrics == getVideoMetrics(vw, vh)
  IN  IF IsNull(rects[r].left) \/ IsNull(rects[r].top) \/ ~metrics.known
        THEN [interaction |-> inter, captures |-> caps, stopped |-> FALSE]
        ELSE [interaction |->
                [mode |-> "resize",
                 rect |-> r,
                 handle |-> handle,
                 start |-> [leftRatio |-> rects[r].left,
                            topRatio |-> rects[r].top,
                            widthRatio |-> rects[r].widthRatio,
                            heightRatio |-> rects[r].heightRatio,
                            leftPx |-> Mul(rects[r].left, Num(metrics.width)),
                            topPx |-> Mul(rects[r].top, Num(metrics.height)),
                            widthPx |-> Mul(rects[r].widthRatio, Num(metrics.width)),
                            heightPx |-> Mul(rects[r].heightRatio, Num(metrics.height))],
                 pointerId |-> event.pointerId,
                 capturedTarget |-> handleOf(r, handle)],
              captures |-> setPointerCapture(caps, handleOf(r, handle), event.pointerId),
              stopped |-> TRUE]

\* pointerdown dispatched on a handle <span>: its own listener (line 62) runs
\* first; the handle is a child of rect.element (line 63), so unless the
\* listener stopped propagation the event bubbles to the listener of the
\* rectangle (line 339).
dispatchOnHandle(rects, inter, caps, vw, vh, event, r, handle) ==
  LET first == pointerDownResize(rects, inter, caps, vw, vh, event, r, handle)
  IN  IF first.stopped
        THEN first
        ELSE pointerDown(rects, first.interaction, first.captures, event, r)

(***************************************************************************)
(* resizeRect (lines 228-319): the resized rectangle.                      *)
(***************************************************************************)
computeMinWidthPx(mwr, metrics) ==
  Mul(MathMax(MathMin(mwr, One), Q(2, 100)), Num(metrics.width))

\* applyValues with the height converted to ratio space by the video's width
applyValuesHeightByWidth(metrics, minWidthPx, leftPx, topPx, widthPx) ==
  LET boundedWidthPx == clamp(widthPx, minWidthPx, Num(metrics.width))
      heightPx == Div(boundedWidthPx, TARGET_ASPECT_RATIO)
      maxLeftPx == MathMax(Sub(Num(metrics.width), boundedWidthPx), Zero)
      maxTopPx == MathMax(Sub(Num(metrics.height), heightPx), Zero)
      safeLeftPx == clamp(leftPx, Zero, maxLeftPx)
      safeTopPx == clamp(topPx, Zero, maxTopPx)
  IN  [left |-> Div(safeLeftPx, Num(metrics.width)),
       top |-> Div(safeTopPx, Num(metrics.height)),
       widthRatio |-> Div(boundedWidthPx, Num(metrics.width)),
       heightRatio |-> Div(heightPx, Num(metrics.width))]

applyValues(metrics, minWidthPx, leftPx, topPx, widthPx) ==
  LET boundedWidthPx == clamp(widthPx, minWidthPx, Num(metrics.width))
      heightPx == Div(boundedWidthPx, TARGET_ASPECT_RATIO)
      maxLeftPx == MathMax(Sub(Num(metrics.width), boundedWidthPx), Zero)
      maxTopPx == MathMax(Sub(Num(metrics.height), heightPx), Zero)
      safeLeftPx == clamp(leftPx, Zero, maxLeftPx)
      safeTopPx == clamp(topPx, Zero, maxTopPx)
  IN  [left |-> Div(safeLeftPx, Num(metrics.width)),
       top |-> Div(safeTopPx, Num(metrics.height)),
       widthRatio |-> Div(boundedWidthPx, Num(metrics.width)),
       heightRatio |-> Div(heightPx, Num(metrics.height))]

computeWidthPx(metrics, minWidthPx, dxPx, dyPx, boundPx) ==
  LET widthFromX == MathMax(dxPx, Zero)
      widthFromY == Mul(MathMax(dyPx, Zero), TARGET_ASPECT_RATIO)
      candidate == MathMin(widthFromX, widthFromY)
      maxWidthPx == MathMax(MathMin(boundPx, Num(metrics.width)), minWidthPx)
  IN  clamp(candidate, minWidthPx, maxWidthPx)

resizeRect(currentInteraction, pointRatio, rect, mwr, vw, vh) ==
  LET start == currentInteraction.start
      metrics == getVideoMetrics(vw, vh)
      W == Num(metrics.width)
      H == Num(metrics.height)
      pointerPx == [x |-> Mul(pointRatio.x, W), y |-> Mul(pointRatio.y, H)]
      minWidthPx == computeMinWidthPx(mwr, metrics)
      \* one case of the switch: the anchor, the distances from it to the
      \* pointer, the room from it to the frame's edges, and which of the new
      \* left and top are measured back from the anchor
      resized(anchorX, anchorY, dxPx, dyPx, roomX, roomY, leftFromAnchor, topFromAnchor) ==
        LET boundsWidthPx == MathMin(roomX, Mul(roomY, TARGET_ASPECT_RATIO))
            newWidthPx == computeWidthPx(metrics, minWidthPx, dxPx, dyPx, boundsWidthPx)
            newLeftPx == IF leftFromAnchor THEN Sub(anchorX, newWidthPx) ELSE anchorX
            newTopPx == IF topFromAnchor
                          THEN Sub(anchorY, Div(newWidthPx, TARGET_ASPECT_RATIO))
                          ELSE anchorY
        IN  applyValues(metrics, minWidthPx, newLeftPx, newTopPx, newWidthPx)
      right == Add(start.leftPx, start.widthPx)
      bottom == Add(start.topPx, start.heightPx)
  IN  IF ~metrics.known
        THEN rect
        ELSE CASE currentInteraction.handle = "top-left" ->
                    resized(right, bottom,
                            Sub(right, pointerPx.x), Sub(bottom, pointerPx.y),
                            right, bottom, TRUE, TRUE)
               [] currentInteraction.handle = "top-right" ->
                    resized(start.leftPx, bottom,
                            Sub(pointerPx.x, start.leftPx), Sub(bottom, pointerPx.y),
                            Sub(W, start.leftPx), bottom, FALSE, TRUE)
               [] currentInteraction.handle = "bottom-left" ->
                    resized(right, start.topPx,
                            Sub(right, pointerPx.x), Sub(pointerPx.y, start.topPx),
                            right, Sub(H, start.topPx), TRUE, FALSE)
               [] currentInteraction.handle = "bottom-right" ->
                    resized(start.leftPx, start.topPx,
                            Sub(pointerPx.x, start.leftPx), Sub(pointerPx.y, start.topPx),
                            Sub(W, start.leftPx), Sub(H, start.topPx), FALSE, FALSE)
               [] OTHER -> rect

(***************************************************************************)
(* pointerMove and getPointerRatio (lines 179-226).                        *)
(***************************************************************************)
getPointerRatio(event, bounds) ==
  IF bounds.width = 0 \/ bounds.height = 0
    THEN [known |-> FALSE, x |-> Zero, y |-> Zero]
    ELSE [known |-> TRUE,
          x |-> clamp(Q(event.clientX - bounds.left, bounds.width), Zero, One),
          y |-> clamp(Q(event.clientY - bounds.top, bounds.height), Zero, One)]

\* moveRect keeping the right and bottom edges inside the frame by shrinking
\* the rectangle instead of clamping its position
moveRectShrinking(currentInteraction, event, bounds, rect) ==
  IF bounds.width = 0 \/ bounds.height = 0
    THEN rect
    ELSE LET deltaX == Q(event.clientX - currentInteraction.start.clientX, bounds.width)
             deltaY == Q(event.clientY - currentInteraction.start.clientY, bounds.height)
             left == MathMax(Add(currentInteraction.start.left, deltaX), Zero)
             top == MathMax(Add(currentInteraction.start.top, deltaY), Zero)
         IN  [left |-> left,
              top |-> top,
              widthRatio |-> MathMin(rect.widthRatio, Sub(One, left)),
              heightRatio |-> MathMin(rect.heightRatio, Sub(One, top))]

\* moveRect adding the pointer's offset to the rectangle's current position
\* instead of the position recorded at pointer-down
moveRectCumulative(currentInteraction, event, bounds, rect) ==
  IF bounds.width = 0 \/ bounds.height = 0
    THEN rect
    ELSE LET deltaX == Q(event.clientX - currentInteraction.start.clientX, bounds.width)
             deltaY == Q(event.clientY - currentInteraction.start.clientY, bounds.height)
         IN  [rect EXCEPT
                !.left = clamp(Add(rect.left, deltaX), Zero, Sub(One, rect.widthRatio)),
                !.top = clamp(Add(rect.top, deltaY), Zero, Sub(One, rect.heightRatio))]

moveRect(currentInteraction, event, bounds, rect) ==
  IF bounds.width = 0 \/ bounds.height = 0
    THEN rect
    ELSE LET deltaX == Q(event.clientX - currentInteraction.start.clientX, bounds.width)
             deltaY == Q(event.clientY - currentInteraction.start.clientY, bounds.height)
         IN  [rect EXCEPT
                !.left = clamp(Add(currentInteraction.start.left, deltaX),
                               Zero, Sub(One, rect.widthRatio)),
                !.top = clamp(Add(currentInteraction.start.top, deltaY),
                              Zero, Sub(One, rect.heightRatio))]

\* the new rectangles
pointerMove(rects, inter, mwr, vw, vh, event, bounds) ==
  IF inter = NoInteraction
    THEN rects
    ELSE IF inter.mode = "move"
      THEN [rects EXCEPT ![inter.rect] = moveRect(inter, event, bounds, @)]
      ELSE LET point == getPointerRatio(event, bounds)
           IN  IF ~point.known
                 THEN rects
                 ELSE [rects EXCEPT ![inter.rect] = resizeRect(inter, point, @, mwr, vw, vh)]

(***************************************************************************)
(* endDrag (lines 321-333): the new <<interaction, captures>>.             *)
(***************************************************************************)
endDrag(inter, caps) ==
  IF inter # NoInteraction /\ inter.pointerId # 0 /\ inter.capturedTarget # NoTarget
    THEN <<NoInteraction, releasePointerCapture(caps, inter.capturedTarget, inter.pointerId)>>
    ELSE <<NoInteraction, caps>>

(***************************************************************************)
(* The events.  A pointer goes down only while it is up and up only while  *)
(* it is down; pointermove is delivered for any pointer, pressed or not.   *)
(* After a pointer's pointerup or pointercancel has been dispatched the    *)
(* platform drops that pointer's capture by itself.                        *)
(***************************************************************************)
Event(x, y, p) == [clientX |-> x, clientY |-> y, pointerId |-> p]

PointerDownOnBody(r, event) ==
  /\ event.pointerId \notin down
  /\ nPresses < MaxPresses
  /\ nPresses' = nPresses + 1
  /\ down' = down \cup {event.pointerId}
  /\ \E a \in {pointerDown(rectangles, interaction, captures, event, r)} :
       interaction' = a.interaction /\ captures' = a.captures
  /\ UNCHANGED <<geometry, submission, nLoads>>

PointerDownOnHandle(r, handle, event) ==
  /\ event.pointerId \notin down
  /\ nPresses < MaxPresses
  /\ nPresses' = nPresses + 1
  /\ down' = down \cup {event.pointerId}
  /\ \E a \in {dispatchOnHandle(rectangles, interaction, captures,
                                 videoWidth, videoHeight, event, r, handle)} :
       interaction' = a.interaction /\ captures' = a.captures
  /\ UNCHANGED <<geometry, submission, nLoads>>

\* pointerdown outside the rectangles: no listener of the controller runs
PointerDownElsewhere(p) ==
  /\ p \notin down
  /\ nPresses < MaxPresses
  /\ nPresses' = nPresses + 1
  /\ down' = down \cup {p}
  /\ UNCHANGED <<geometry, interaction, captures, submission, nLoads>>

PointerMove(event, bounds) ==
  /\ UNCHANGED <<videoWidth, videoHeight, minWidthRatio, pointers, submission,
                 nPresses, nLoads>>
  /\ rectangles' = pointerMove(rectangles, interaction, minWidthRatio,
                               videoWidth, videoHeight, event, bounds)

PointerUp(p) ==
  /\ p \in down
  /\ down' = down \ {p}
  /\ LET e == endDrag(interaction, captures)
     IN  interaction' = e[1] /\ captures' = [e[2] EXCEPT ![p] = NoTarget]
  /\ UNCHANGED <<geometry, submission, nPresses, nLoads>>

PointerCancel(p) ==
  /\ p \in down
  /\ down' = down \ {p}
  /\ LET e == endDrag(interaction, captures)
     IN  interaction' = e[1] /\ captures' = [e[2] EXCEPT ![p] = NoTarget]
  /\ UNCHANGED <<geometry, submission, nPresses, nLoads>>

(***************************************************************************)
(* handleConfirm (lines 361-416).  An invocation runs to its first await   *)
(* inside the click event, and each later step runs when the promise it    *)
(* awaits settles.  A call is [pc, body]: pc "fetch" awaits fetch(),       *)
(* "errorJson" the body of a non-success response, "resultJson" the body   *)
(* of a successful one.                                                    *)
(***************************************************************************)
serialize(rects) ==
  [i \in 1..2 |-> [id |-> rectId(i),
                   x |-> rects[i].left,
                   y |-> rects[i].top,
                   width |-> rects[i].widthRatio,
                   height |-> rects[i].heightRatio]]

RemoveAt(seq, i) == SubSeq(seq, 1, i - 1) \o SubSeq(seq, i + 1, Len(seq))

\* setFeedback(message, status)
setFeedback(message, status) == [message |-> message, status |-> status]

\* handleConfirm without its finally block
finallyMissing == TRUE

\* what the finally block leaves in confirmButton.disabled
finallyDisabled == FALSE

\* bodies a non-success response may carry
ErrorBodies == {"unparseable", "withoutError", "withError"}
\* line 386-387: the message of the Error thrown for a non-success response
errorMessage(errorBody) ==
  IF errorBody = "withError" THEN "server error message" ELSE "Unable to process video"

\* bodies a successful response may carry: not JSON; an object without an
\* outputs field; outputs []; outputs null; a list of well-formed outputs; a
\* list of outputs that lack their crop
ResultBodies ==
  {"unparseable", "withoutOutputs", "emptyOutputs", "nullOutputs", "outputs",
   "outputsWithoutCrop"}
\* resultFeedback treating a response without outputs as a failure
resultFeedbackOutputsRequired(resultBody) ==
  CASE resultBody = "unparseable" -> setFeedback("SyntaxError", "error")
    [] resultBody \in {"withoutOutputs", "emptyOutputs"} ->
         setFeedback("Processing finished but no outputs were generated.", "error")
    [] resultBody = "outputs" -> setFeedback("Export complete!", "success")
    [] resultBody \in {"nullOutputs", "outputsWithoutCrop"} ->
         setFeedback("TypeError", "error")

\* lines 390-412: the feedback the steps after `await response.json()` leave
resultFeedback(resultBody) ==
  CASE resultBody = "unparseable" -> setFeedback("SyntaxError", "error")
    [] resultBody \in {"withoutOutputs", "emptyOutputs"} ->
         setFeedback("Processing finished but no outputs were generated.", "warning")
    [] resultBody = "outputs" -> setFeedback("Export complete!", "success")
    [] resultBody \in {"nullOutputs", "outputsWithoutCrop"} ->
         setFeedback("TypeError", "error")

\* how many handleConfirm invocations may be pending at once
MaxCalls == 2

\* handleConfirm without line 364
clickLeavesEnabled == FALSE

\* what line 364 leaves in confirmButton.disabled
clickDisabled == TRUE

\* line 363: "Processing with ffmpeg" and the one character U+2026
\* (horizontal ellipsis), written here by its JavaScript escape
processingMessage == "Processing with ffmpeg\\u2026"

\* the click listener of the confirm button (line 418): a disabled button
\* dispatches no click
ClickConfirm ==
  /\ ~disabled
  /\ Len(calls) < MaxCalls
  /\ feedback' = setFeedback(processingMessage, "pending")
  /\ disabled' = clickDisabled
  /\ calls' = Append(calls, [pc |-> "fetch", body |-> serialize(rectangles)])
  /\ UNCHANGED <<geometry, pointers, nPresses, nLoads>>

\* fetch() rejects: catch, then finally
FetchRejects(i) ==
  /\ i \in DOMAIN calls
  /\ calls[i].pc = "fetch"
  /\ feedback' = setFeedback("Failed to fetch", "error")
  /\ disabled' = finallyDisabled
  /\ calls' = RemoveAt(calls, i)
  /\ UNCHANGED <<geometry, pointers, nPresses, nLoads>>

\* fetch() resolves with a response whose ok flag is `ok`
FetchResolves(i, ok) ==
  /\ i \in DOMAIN calls
  /\ calls[i].pc = "fetch"
  /\ calls' = [calls EXCEPT ![i].pc = IF ok THEN "resultJson" ELSE "errorJson"]
  /\ UNCHANGED <<geometry, pointers, disabled, feedback, nPresses, nLoads>>

\* the body of a non-success response settles: throw, catch, finally
ErrorJsonSettles(i, errorBody) ==
  /\ i \in DOMAIN calls
  /\ calls[i].pc = "errorJson"
  /\ feedback' = setFeedback(errorMessage(errorBody), "error")
  /\ disabled' = finallyDisabled
  /\ calls' = RemoveAt(calls, i)
  /\ UNCHANGED <<geometry, pointers, nPresses, nLoads>>

\* the body of a successful response settles
ResultJsonSettles(i, resultBody) ==
  /\ i \in DOMAIN calls
  /\ calls[i].pc = "resultJson"
  /\ feedback' = resultFeedback(resultBody)
  /\ disabled' = finallyDisabled
  /\ calls' = RemoveAt(calls, i)
  /\ UNCHANGED <<geometry, pointers, nPresses, nLoads>>

\* the events of the controller, with the pointers `ids` in use and the
\* pointer moving to the positions `points`
Events(ids, points) ==
  \/ \E size \in VideoSizes : LoadedMetadata(size)
  \/ \E r \in Rects, pt \in PressPoints, p \in ids :
       PointerDownOnBody(r, Event(pt[1], pt[2], p))
  \/ \E r \in Rects, h \in HANDLE_POSITIONS, pt \in PressPoints, p \in ids :
       PointerDownOnHandle(r, h, Event(pt[1], pt[2], p))
  \/ \E p \in ids : PointerDownElsewhere(p)
  \/ \E pt \in points, b \in Layouts : PointerMove(Event(pt[1], pt[2], 1), b)
  \/ \E p \in ids : PointerUp(p)
  \/ \E p \in ids : PointerCancel(p)

\* several pointers at once (touch), moving between two corners of the overlay
TouchPoints == {<<1, 1>>, <<5, 5>>}
Next == Events(PointerIds, TouchPoints)

\* one pointer (a mouse, whose pointer id is 1)
NextOnePointer == Events({1}, MovePoints)

\* The controller with its submission: the same events, drawn from fewer
\* pointer positions, and the confirm button with the network's answers.
SubmitPoints == {<<1, 1>>, <<5, 5>>}

NextSubmit ==
  \/ \E size \in VideoSizes : LoadedMetadata(size)
  \/ \E r \in Rects : nPresses = 0 /\ PointerDownOnBody(r, Event(3, 3, 1))
  \/ \E r \in Rects : nPresses = 0 /\ PointerDownOnHandle(r, "bottom-right", Event(3, 3, 1))
  \/ \E pt \in SubmitPoints : PointerMove(Event(pt[1], pt[2], 1), CHOOSE b \in Layouts : b.width # 0)
  \/ PointerUp(1)
  \/ ClickConfirm
  \/ \E i \in 1..MaxCalls : FetchRejects(i)
  \/ \E i \in 1..MaxCalls, ok \in BOOLEAN : FetchResolves(i, ok)
  \/ \E i \in 1..MaxCalls, e \in ErrorBodies : ErrorJsonSettles(i, e)
  \/ \E i \in 1..MaxCalls, b \in ResultBodies : ResultJsonSettles(i, b)

\* The controller of a page whose video is replaced by another one: both
\* videos hold the TARGET_ASPECT box, and one pointer drags the handles.
LargeVideoSizes == {<<3840, 2160>>, <<1920, 1080>>}

NextReload ==
  \/ \E size \in LargeVideoSizes : LoadedMetadata(size)
  \/ \E r \in Rects, h \in HANDLE_POSITIONS, pt \in PressPoints :
       PointerDownOnHandle(r, h, Event(pt[1], pt[2], 1))
  \/ \E pt \in MovePoints, b \in Layouts : PointerMove(Event(pt[1], pt[2], 1), b)
  \/ PointerUp(1)

Spec == Init /\ [][Next]_vars
ReloadSpec == InitOn(LargeVideoSizes) /\ [][NextReload]_vars
OnePointerSpec == Init /\ [][NextOnePointer]_vars
SubmitSpec == Init /\ [][NextSubmit]_vars
\* every pending promise of a submission settles
FairSubmitSpec ==
  /\ SubmitSpec
  /\ WF_vars(\E i \in 1..MaxCalls : FetchRejects(i) \/ \E ok \in BOOLEAN : FetchResolves(i, ok))
  /\ WF_vars(\E i \in 1..MaxCalls, e \in ErrorBodies : ErrorJsonSettles(i, e))
  /\ WF_vars(\E i \in 1..MaxCalls, b \in ResultBodies : ResultJsonSettles(i, b))
(***************************************************************************)
(* Properties.                                                             *)
(***************************************************************************)
metricsKnown == videoWidth # 0 /\ videoHeight # 0
positioned(rect) == ~IsNull(rect.left) /\ ~IsNull(rect.top)
contained(rect) ==
  /\ Le(Zero, rect.left) /\ Le(rect.left, Sub(One, rect.widthRatio))
  /\ Le(Zero, rect.top) /\ Le(rect.top, Sub(One, rect.heightRatio))
laidOut(bounds) == bounds.width # 0 /\ bounds.height # 0
\* a pointermove delivered while a resize (or a move) is the interaction
resizeStep(pt, b) == interaction.mode = "resize" /\ PointerMove(Event(pt[1], pt[2], 1), b)
moveStep(pt, b) == interaction.mode = "move" /\ PointerMove(Event(pt[1], pt[2], 1), b)
\* a number in [0, 1], and one in (0, 1]
inUnit(v) == ~IsNull(v) /\ Le(Zero, v) /\ Le(v, One)
inUnitPositive(v) == ~IsNull(v) /\ Lt(Zero, v) /\ Le(v, One)

\* C1: a pointer-down (on a body or a handle, of either region) that arrives
\* while an interaction is active is ignored: the interaction (mode, region,
\* start values, pointer id) is unchanged, so Moving never becomes Resizing
\* nor Resizing Moving without passing through Idle.
C1_SecondPointerDownIgnored ==
  [][(interaction # NoInteraction /\ nPresses' # nPresses) => interaction' = interaction]_vars

\* C2: once the regions have been sized, each region is contained in the
\* frame: 0 <= left <= 1 - widthRatio and 0 <= top <= 1 - heightRatio.
C2_Containment ==
  \A r \in Rects : positioned(rectangles[r]) => contained(rectangles[r])

\* C3: the rectangle every resize produces (any handle, any pointer position,
\* any video size a resize can start with) is contained in the frame.
C3_ResizeContained ==
  [][\A pt \in MovePoints, b \in Layouts :
       (metricsKnown /\ laidOut(b) /\ resizeStep(pt, b))
         => contained(rectangles'[interaction.rect])]_vars

\* C4 as claimed: after initialization each region's widthRatio / heightRatio
\* equals TARGET_ASPECT_RATIO, for every video size.
C4_RatioSpaceAspect ==
  \A r \in Rects :
    positioned(rectangles[r])
      => Div(rectangles[r].widthRatio, rectangles[r].heightRatio) = TARGET_ASPECT_RATIO

NegQ(a) == Sub(Zero, a)
AbsQ(a) == IF Lt(a, Zero) THEN NegQ(a) ELSE a
\* two numbers that differ by rounding only: by at most one part in 10^9 of
\* the larger one
relativeTolerance == Q(1, 1000000000)
closeTo(a, b) ==
  Le(AbsQ(Sub(a, b)), Mul(relativeTolerance, MathMax(AbsQ(a), AbsQ(b))))

\* C4 as amended: while the video metrics are known, each region's
\* widthRatio / heightRatio equals TARGET_ASPECT_RATIO * videoHeight / videoWidth
\* up to the rounding of the numbers (the aspect is locked between the pixel
\* sizes, so the quotient of the ratios is TARGET_ASPECT_RATIO only for a
\* square video).
C4_AspectScaledByVideo ==
  metricsKnown =>
    \A r \in Rects :
      closeTo(Div(rectangles[r].widthRatio, rectangles[r].heightRatio),
              Mul(TARGET_ASPECT_RATIO, Q(videoHeight, videoWidth)))

\* C4 witness: a resize has changed a region's width on a video that is not square.
C4_Witness ==
  /\ metricsKnown /\ videoWidth # videoHeight
  /\ interaction.mode = "resize"
  /\ rectangles[interaction.rect].widthRatio # interaction.start.widthRatio
  /\ rectangles[interaction.rect].widthRatio # Q(TARGET_ASPECT_width, videoWidth)

\* C5: after every resize the region's widthRatio is at least the shared
\* minWidthRatio, for every video width.
C5_ResizeFloor ==
  [][\A pt \in MovePoints, b \in Layouts :
       (metricsKnown /\ laidOut(b) /\ resizeStep(pt, b))
         => Le(minWidthRatio, rectangles'[interaction.rect].widthRatio)]_vars

\* C6: every submitted payload is the two entries rect-speaker-1, rect-speaker-2
\* in this order, each with x and y in [0, 1] and width and height in (0, 1].
C6_PayloadWellFormed ==
  \A i \in DOMAIN calls :
    /\ Len(calls[i].body) = 2
    /\ calls[i].body[1].id = "rect-speaker-1"
    /\ calls[i].body[2].id = "rect-speaker-2"
    /\ \A k \in 1..2 :
         /\ inUnit(calls[i].body[k].x)
         /\ inUnit(calls[i].body[k].y)
         /\ inUnitPositive(calls[i].body[k].width)
         /\ inUnitPositive(calls[i].body[k].height)

\* C7: every pointer-up or pointer-cancel that ends an interaction releases
\* the capture taken at that interaction's pointer-down (for every pointer id,
\* 0 included) and leaves the controller Idle.
C7_CaptureReleasedAtEnd ==
  [][(interaction # NoInteraction /\ down' # down /\ nPresses' = nPresses)
       => /\ interaction' = NoInteraction
          /\ captures'[interaction.pointerId] # interaction.capturedTarget]_vars

\* a step in which a submission settles
settles == Len(calls') < Len(calls)

\* C8: every submission re-enables the confirm button: a step that settles the
\* request (by any outcome) leaves the button enabled and the feedback not
\* "pending", and a disabled button is eventually enabled again.
C8_ButtonReenabled ==
  /\ [][settles => (~disabled' /\ feedback'.status # "pending")]_vars
  /\ (disabled ~> ~disabled)

\* C8 witness: a submission has settled (the feedback shows an outcome).
C8_Witness ==
  /\ calls = <<>> /\ ~disabled
  /\ feedback.status \in {"warning", "success", "error"}

\* C9: a pointer-move of a move interaction changes only the moved region's
\* left and top: its size and the other region are unchanged.
C9_MoveChangesOnlyPosition ==
  [][\A pt \in MovePoints, b \in Layouts :
       moveStep(pt, b) =>
         /\ rectangles'[interaction.rect].widthRatio = rectangles[interaction.rect].widthRatio
         /\ rectangles'[interaction.rect].heightRatio = rectangles[interaction.rect].heightRatio
         /\ \A r \in Rects \ {interaction.rect} : rectangles'[r] = rectangles[r]]_vars

\* C9 witness: a move interaction has moved its region away from where the
\* pointer-down found it.
C9_Witness ==
  /\ interaction.mode = "move"
  /\ rectangles[interaction.rect].left # interaction.start.left
  /\ rectangles[interaction.rect].top # interaction.start.top

\* C10: while the video metrics are unknown, the metadata sizing step, a
\* pointer-down on a corner handle and a pointer-move during a resize leave
\* the regions, minWidthRatio and the interaction unchanged.
C10_UnknownMetricsNoOp ==
  [][/\ \A size \in VideoSizes :
          (size[1] = 0 /\ LoadedMetadata(size))
            => UNCHANGED <<rectangles, minWidthRatio, interaction>>
     /\ \A r \in Rects, h \in HANDLE_POSITIONS, pt \in PressPoints, p \in PointerIds :
          (~metricsKnown /\ PointerDownOnHandle(r, h, Event(pt[1], pt[2], p)))
            => UNCHANGED <<rectangles, minWidthRatio, interaction>>
     /\ \A pt \in MovePoints, b \in Layouts :
          (~metricsKnown /\ resizeStep(pt, b))
            => UNCHANGED <<rectangles, minWidthRatio, interaction>>]_vars

(***************************************************************************)
(* Geometry of one resize interaction, as the properties below read it.    *)
(***************************************************************************)
leftHandles == {"top-left", "bottom-left"}
topHandles == {"top-left", "top-right"}
\* the corner opposite the dragged handle, in the pixels recorded at pointer-down
anchorPx(inter) ==
  [x |-> IF inter.handle \in leftHandles
           THEN Add(inter.start.leftPx, inter.start.widthPx)
           ELSE inter.start.leftPx,
   y |-> IF inter.handle \in topHandles
           THEN Add(inter.start.topPx, inter.start.heightPx)
           ELSE inter.start.topPx]
\* the video pixel a pointermove at <<clientX, clientY>> = pt points at
pointPx(pt, b) ==
  LET point == getPointerRatio(Event(pt[1], pt[2], 1), b)
  IN  [x |-> Mul(point.x, Num(videoWidth)), y |-> Mul(point.y, Num(videoHeight))]
\* the distances from the anchor to a pixel, positive away from the anchor
\* on the dragged handle's side
awayPx(inter, px) ==
  [dx |-> IF inter.handle \in leftHandles
            THEN Sub(anchorPx(inter).x, px.x) ELSE Sub(px.x, anchorPx(inter).x),
   dy |-> IF inter.handle \in topHandles
            THEN Sub(anchorPx(inter).y, px.y) ELSE Sub(px.y, anchorPx(inter).y)]
\* pt2 is no farther from the anchor than pt1 on either axis
towardAnchor(inter, pt1, pt2, b) ==
  /\ Le(AbsQ(awayPx(inter, pointPx(pt2, b)).dx), AbsQ(awayPx(inter, pointPx(pt1, b)).dx))
  /\ Le(AbsQ(awayPx(inter, pointPx(pt2, b)).dy), AbsQ(awayPx(inter, pointPx(pt1, b)).dy))
\* the region a pointermove at pt leaves to the resize interaction (resizeRect
\* overwrites all four fields from the interaction's start values, so this
\* is the region after that pointermove whatever the moves before it)
resizedTo(pt, b) ==
  resizeRect(interaction, getPointerRatio(Event(pt[1], pt[2], 1), b),
             rectangles[interaction.rect], minWidthRatio, videoWidth, videoHeight)

\* C11: within one resize interaction, when the pointer goes from one position
\* to one that is no farther from the anchor on either axis, the region's
\* width does not grow, is never below the floor minWidthRatio, and once at
\* the floor stays there.
C11_ShrinksTowardAnchor ==
  (metricsKnown /\ interaction.mode = "resize") =>
    \A pt1 \in MovePoints, pt2 \in MovePoints, b \in Layouts :
      (laidOut(b) /\ towardAnchor(interaction, pt1, pt2, b))
        => /\ Le(resizedTo(pt2, b).widthRatio, resizedTo(pt1, b).widthRatio)
           /\ Le(minWidthRatio, resizedTo(pt2, b).widthRatio)
           /\ (resizedTo(pt1, b).widthRatio = minWidthRatio
                 => resizedTo(pt2, b).widthRatio = minWidthRatio)

\* the regions and minWidthRatio as construction left them (never sized)
unsized == \A r \in Rects : rectangles[r] = initialRect
\* <<rectangles, minWidthRatio>> after the first sizing, for a video of `size`
freshlySized(size) ==
  updateRectSizeFromVideo([r \in Rects |-> initialRect], initialMinWidthRatio,
                          size[1], size[2])

\* C12: initialization does not depend on how the metadata arrives.  A
\* loadedmetadata event that finds the regions never sized leaves what the
\* synchronous readyState check leaves for the same video, and one that
\* repeats the metrics already applied, with no interaction in between,
\* changes nothing (sizing twice equals sizing once).
C12_InitOrderIndependent ==
  [][\A size \in VideoSizes :
       (size[1] # 0 /\ size[2] # 0 /\ nPresses = 0 /\ LoadedMetadata(size))
         => /\ unsized => <<rectangles', minWidthRatio'>> = freshlySized(size)
            /\ <<videoWidth, videoHeight>> = size
                 => UNCHANGED <<rectangles, minWidthRatio>>]_vars

\* C12 witness: with no interaction so far, a loadedmetadata event has been
\* delivered and the regions are as the first sizing for this video leaves them.
C12_Witness ==
  /\ nLoads > 0 /\ nPresses = 0 /\ metricsKnown
  /\ <<rectangles, minWidthRatio>> = freshlySized(<<videoWidth, videoHeight>>)

\* the ratios of the TARGET_ASPECT box on a video of `size`
targetWidthRatio(size) == Q(TARGET_ASPECT_width, size[1])
targetHeightRatio(size) == Q(TARGET_ASPECT_height, size[2])

\* C13: whenever the video metrics become known or change (at construction or
\* by a loadedmetadata event), both regions get widthRatio = 1100 / videoWidth
\* and heightRatio = 1000 / videoHeight, whatever size a resize had given
\* them, and keep their position, clamped to [0, 1 - size] (a region never
\* positioned starts from its default position).
C13_SizedToTargetBox ==
  /\ []((nLoads = 0 /\ nPresses = 0 /\ metricsKnown) =>
          \A r \in Rects :
            /\ rectangles[r].widthRatio = targetWidthRatio(<<videoWidth, videoHeight>>)
            /\ rectangles[r].heightRatio = targetHeightRatio(<<videoWidth, videoHeight>>)
            /\ rectangles[r].left
                 = clamp(defaultLeft(r), Zero, Sub(One, rectangles[r].widthRatio))
            /\ rectangles[r].top
                 = clamp(defaultTop(r), Zero, Sub(One, rectangles[r].heightRatio)))
  /\ [][\A size \in VideoSizes :
          (size[1] # 0 /\ size[2] # 0 /\ LoadedMetadata(size)) =>
            \A r \in Rects :
              /\ rectangles'[r].widthRatio = targetWidthRatio(size)
              /\ rectangles'[r].heightRatio = targetHeightRatio(size)
              /\ rectangles'[r].left
                   = clamp(IF positioned(rectangles[r])
                             THEN rectangles[r].left ELSE defaultLeft(r),
                           Zero, Sub(One, targetWidthRatio(size)))
              /\ rectangles'[r].top
                   = clamp(IF positioned(rectangles[r])
                             THEN rectangles[r].top ELSE defaultTop(r),
                           Zero, Sub(One, targetHeightRatio(size)))]_vars

\* C13 witness: a loadedmetadata event has re-sized, to the target box of a
\* 1920x1080 video, a region whose resize interaction began at a width set by
\* an earlier resize.
C13_Witness ==
  /\ nLoads > 0 /\ videoWidth = 1920 /\ videoHeight = 1080
  /\ interaction.mode = "resize"
  /\ interaction.start.widthRatio
       \notin {targetWidthRatio(size) : size \in VideoSizes \ {<<0, 0>>}}
  /\ rectangles[interaction.rect].widthRatio = Q(1100, 1920)
  /\ rectangles[interaction.rect].heightRatio = Q(1000, 1080)

\* successful responses that carry no outputs, and malformed ones
NoOutputBodies == {"withoutOutputs", "emptyOutputs"}
MalformedBodies == {"unparseable", "nullOutputs", "outputsWithoutCrop"}

\* C14: a successful response without outputs (outputs empty or missing) ends
\* the submission in the "warning" state with the no-outputs message; the
\* "error" state is entered only when the request fails (fetch rejects, or
\* the status is not a success) or the response is malformed.
C14_NoOutputsIsWarning ==
  [][/\ \A i \in 1..MaxCalls, b \in NoOutputBodies :
          ResultJsonSettles(i, b) =>
            feedback' = setFeedback("Processing finished but no outputs were generated.",
                                    "warning")
     /\ (feedback'.status = "error" /\ feedback.status # "error") =>
          \/ \E i \in 1..MaxCalls : FetchRejects(i)
          \/ \E i \in 1..MaxCalls, e \in ErrorBodies : ErrorJsonSettles(i, e)
          \/ \E i \in 1..MaxCalls, b \in MalformedBodies : ResultJsonSettles(i, b)]_vars

\* C14 witness: a submission has ended in the warning state.
C14_Witness ==
  /\ calls = <<>> /\ ~disabled
  /\ feedback = setFeedback("Processing finished but no outputs were generated.", "warning")

\* a region's size in video pixels
widthPxOf(rect) == Mul(rect.widthRatio, Num(videoWidth))
heightPxOf(rect) == Mul(rect.heightRatio, Num(videoHeight))

\* C15 as claimed: while the video metrics are known, each region's pixel
\* size has the fixed format: (widthRatio x videoWidth) : (heightRatio x
\* videoHeight) = 1100 : 1000, after the sizing and after every resize.
C15_PixelAspectLocked ==
  metricsKnown =>
    \A r \in Rects :
      Mul(widthPxOf(rectangles[r]), Num(TARGET_ASPECT_height))
        = Mul(heightPxOf(rectangles[r]), Num(TARGET_ASPECT_width))

\* C15 as amended: while the video metrics are known, each region's pixel
\* size has the fixed format up to the rounding of the numbers:
\* (widthRatio x videoWidth) x 1000 and (heightRatio x videoHeight) x 1100
\* differ by at most one part in 10^9, after the sizing and after every resize.
C15_PixelAspectWithinRounding ==
  metricsKnown =>
    \A r \in Rects :
      closeTo(Mul(widthPxOf(rectangles[r]), Num(TARGET_ASPECT_height)),
              Mul(heightPxOf(rectangles[r]), Num(TARGET_ASPECT_width)))

\* C15 witness: a resize has made a region smaller than the target box.
C15_Witness ==
  /\ metricsKnown
  /\ interaction.mode = "resize"
  /\ Lt(widthPxOf(rectangles[interaction.rect]), Num(TARGET_ASPECT_width))
  /\ Lt(heightPxOf(rectangles[interaction.rect]), Num(TARGET_ASPECT_height))

\* the pointer's offset from the pointer-down position, in ratios of the overlay
offsetX(pt, b) == Q(pt[1] - interaction.start.clientX, b.width)
offsetY(pt, b) == Q(pt[2] - interaction.start.clientY, b.height)

\* C16: moves do not drift.  A pointer-down on a region's body records the
\* region's position and the pointer's, and after every pointer-move of the
\* move interaction the region's left is clamp(recorded left + dX, 0,
\* 1 - widthRatio) and its top clamp(recorded top + dY, 0, 1 - heightRatio),
\* (dX, dY) being the offset of this pointer position from the recorded one:
\* a function of the latest position alone, each axis clamped by itself.
C16_MoveFromOrigin ==
  [][/\ \A r \in Rects, pt \in PressPoints, p \in PointerIds :
          (positioned(rectangles[r]) /\ PointerDownOnBody(r, Event(pt[1], pt[2], p)))
            => /\ interaction'.mode = "move" /\ interaction'.rect = r
               /\ interaction'.start = [clientX |-> pt[1], clientY |-> pt[2],
                                        left |-> rectangles[r].left,
                                        top |-> rectangles[r].top]
     /\ \A pt \in MovePoints, b \in Layouts :
          (laidOut(b) /\ moveStep(pt, b))
            => /\ rectangles'[interaction.rect].left
                    = clamp(Add(interaction.start.left, offsetX(pt, b)), Zero,
                            Sub(One, rectangles'[interaction.rect].widthRatio))
               /\ rectangles'[interaction.rect].top
                    = clamp(Add(interaction.start.top, offsetY(pt, b)), Zero,
                            Sub(One, rectangles'[interaction.rect].heightRatio))]_vars

\* C16 witness: a move interaction has moved its region along one axis only:
\* the top was clamped to 0 while the left is where the pointer-down found it.
C16_Witness ==
  /\ interaction.mode = "move"
  /\ rectangles[interaction.rect].top = Zero
  /\ Lt(Zero, interaction.start.top)
  /\ rectangles[interaction.rect].left = interaction.start.left
  /\ Lt(Zero, rectangles[interaction.rect].left)
  /\ Lt(rectangles[interaction.rect].left,
        Sub(One, rectangles[interaction.rect].widthRatio))

\* the corner of a region opposite the handle, in video pixels
oppositeCornerPx(rect, handle) ==
  [x |-> Mul(IF handle \in leftHandles THEN Add(rect.left, rect.widthRatio) ELSE rect.left,
             Num(videoWidth)),
   y |-> Mul(IF handle \in topHandles THEN Add(rect.top, rect.heightRatio) ELSE rect.top,
             Num(videoHeight))]

\* C17: after every pointer-move of a resize interaction the corner of the
\* region opposite the dragged handle is at the pixel position it had when
\* the interaction began, for every handle, pointer position and video size.
C17_AnchorFixed ==
  [][\A pt \in MovePoints, b \in Layouts :
       (metricsKnown /\ laidOut(b) /\ resizeStep(pt, b))
         => oppositeCornerPx(rectangles'[interaction.rect], interaction.handle)
              = anchorPx(interaction)]_vars

\* the distances from the anchor to the frame's edges on the dragged handle's side
roomPx(inter) ==
  [x |-> IF inter.handle \in leftHandles
           THEN anchorPx(inter).x ELSE Sub(Num(videoWidth), anchorPx(inter).x),
   y |-> IF inter.handle \in topHandles
           THEN anchorPx(inter).y ELSE Sub(Num(videoHeight), anchorPx(inter).y)]
\* the width the two candidates, the floor and the upper bound give for a pixel
widthByCandidates(inter, px) ==
  LET horizontal == MathMax(awayPx(inter, px).dx, Zero)
      vertical == Mul(MathMax(awayPx(inter, px).dy, Zero), TARGET_ASPECT_RATIO)
      floorPx == Mul(minWidthRatio, Num(videoWidth))
      upperBoundPx == MathMin(roomPx(inter).x, Mul(roomPx(inter).y, TARGET_ASPECT_RATIO))
  IN  clamp(MathMin(horizontal, vertical), floorPx, upperBoundPx)

\* C18: the resized width is the smaller of the two candidates, clamped: after
\* every pointer-move of a resize, for every handle and pointer position, the
\* region's pixel width is clamp(min(max(dx, 0), max(dy, 0) x 1.1), floorPx,
\* upperBoundPx), with floorPx = minWidthRatio x videoWidth and upperBoundPx
\* the smaller of the anchor's room to the frame's edge horizontally and its
\* room vertically x 1.1.
C18_WidthIsMinOfCandidates ==
  [][\A pt \in MovePoints, b \in Layouts :
       (metricsKnown /\ laidOut(b) /\ resizeStep(pt, b))
         => widthPxOf(rectangles'[interaction.rect])
              = widthByCandidates(interaction, pointPx(pt, b))]_vars

\* the pixels the resize interaction recorded at pointer-down are those of a
\* video of another size than the present one
staleStart ==
  \/ interaction.start.widthPx # Mul(interaction.start.widthRatio, Num(videoWidth))
  \/ interaction.start.heightPx # Mul(interaction.start.heightRatio, Num(videoHeight))
\* the video holds the TARGET_ASPECT box
holdsTargetBox == videoWidth >= TARGET_ASPECT_width /\ videoHeight >= TARGET_ASPECT_height

\* C19: when a loadedmetadata event with other natural dimensions arrives
\* during a resize interaction, every later pointer-move of the interaction
\* leaves the resized region contained in the frame, also when the new video
\* is large enough to hold the 1100x1000 box.
C19_ContainedAfterMetadataChange ==
  [][\A pt \in MovePoints, b \in Layouts :
       (/\ metricsKnown /\ holdsTargetBox /\ laidOut(b)
        /\ resizeStep(pt, b) /\ staleStart)
         => contained(rectangles'[interaction.rect])]_vars

\* C20: at most one submission is in flight: from the confirm click until the
\* submission settles the button is disabled, a request starts only when
\* none is pending, and the payload it sent (the regions as they were at the
\* click) is not changed by the pointer interactions that follow.
C20_OneSubmissionInFlight ==
  /\ [](Len(calls) <= 1 /\ (calls # <<>> => disabled))
  /\ [][/\ Len(calls') > Len(calls) =>
            /\ calls = <<>>
            /\ calls'[1].body = serialize(rectangles)
        /\ Len(calls') = Len(calls) =>
            \A i \in DOMAIN calls : calls'[i].body = calls[i].body]_vars

\* C20 witness: while a submission is in flight a pointer interaction has
\* changed a region, so the regions differ from the payload sent.
C20_Witness ==
  /\ Len(calls) = 1
  /\ disabled
  /\ nLoads = 0
  /\ interaction # NoInteraction
  /\ calls[1].body # serialize(rectangles)

(***************************************************************************)
(* The move-only controller, src/static/js/main.js: the regions keep the   *)
(* size of a 1080x675 box scaled down to fit the video, and are moved by   *)
(* their body only.  It runs on the variables above: interaction holds the *)
(* pair activeRect (0 models null) and dragStart; minWidthRatio and        *)
(* captures have no counterpart in this script.                            *)
(***************************************************************************)
\* clamp (lines 1-3): Math.min(Math.max(value, min), max), whatever min and max
clampMain(value, min, max) == MathMin(MathMax(value, min), max)

\* the literals 0.05, 0.6, 0.1 and 0.55 of lines 16-37
defaultLeftMain(r) == IF r = 1 THEN Q(5, 100) ELSE Q(6, 10)
defaultTopMain(r) == IF r = 1 THEN Q(1, 10) ELSE Q(55, 100)

initialRectMain == [left |-> NULL, top |-> NULL, widthRatio |-> Zero, heightRatio |-> Zero]
idle == [activeRect |-> 0, dragStart |-> NULL]

\* the body of the forEach of updateRectSizeFromVideo (lines 54-63)
sizeRectMain(rect, r, cropWidth, cropHeight) ==
  LET unset == rect.left = NULL \/ rect.top = NULL
      left0 == IF unset THEN defaultLeftMain(r) ELSE rect.left
      top0 == IF unset THEN defaultTopMain(r) ELSE rect.top
  IN  [left |-> clampMain(left0, Zero, Sub(One, cropWidth)),
       top |-> clampMain(top0, Zero, Sub(One, cropHeight)),
       widthRatio |-> cropWidth,
       heightRatio |-> cropHeight]

\* updateRectSizeFromVideo (lines 42-67)
updateRectSizeFromVideoMain(rects, vw, vh) ==
  IF vw = 0 \/ vh = 0
    THEN rects
    ELSE LET scale == MathMin(MathMin(One, Div(Num(vw), Num(1080))), Div(Num(vh), Num(675)))
             cropWidth == Div(Mul(Num(1080), scale), Num(vw))
             cropHeight == Div(Mul(Num(675), scale), Num(vh))
         IN  [r \in Rects |-> sizeRectMain(rects[r], r, cropWidth, cropHeight)]

\* pointerDown (lines 80-92)
pointerDownMain(rects, inter, event, r) ==
  IF rects[r].left = NULL \/ rects[r].top = NULL
    THEN inter
    ELSE [activeRect |-> r,
          dragStart |-> [clientX |-> event.clientX, clientY |-> event.clientY,
                         left |-> rects[r].left, top |-> rects[r].top]]

\* pointerMove (lines 94-111)
pointerMoveMain(rects, inter, event, bounds) ==
  IF inter.activeRect = 0 \/ inter.dragStart = NULL THEN rects
  ELSE IF bounds.width = 0 \/ bounds.height = 0 THEN rects
  ELSE LET dragStart == inter.dragStart
           activeRect == rects[inter.activeRect]
           deltaX == Div(Num(event.clientX - dragStart.clientX), Num(bounds.width))
           deltaY == Div(Num(event.clientY - dragStart.clientY), Num(bounds.height))
       IN  [rects EXCEPT ![inter.activeRect] =
              [activeRect EXCEPT
                 !.left = clampMain(Add(dragStart.left, deltaX), Zero,
                                    Sub(One, activeRect.widthRatio)),
                 !.top = clampMain(Add(dragStart.top, deltaY), Zero,
                                   Sub(One, activeRect.heightRatio))]]

\* endDrag (lines 113-116)
endDragMain == idle

\* natural sizes a loaded video may report: none, larger than the box, and
\* smaller than the box by its height
MainVideoSizes == {<<0, 0>>, <<1920, 1080>>, <<736, 416>>}

\* the state after the script has run (lines 201-211)
InitMain ==
  /\ \E size \in MainVideoSizes :
       /\ videoWidth = size[1]
       /\ videoHeight = size[2]
       /\ rectangles = updateRectSizeFromVideoMain([r \in Rects |-> initialRectMain],
                                                   size[1], size[2])
  /\ minWidthRatio = initialMinWidthRatio
  /\ interaction = idle
  /\ captures = [p \in PointerIds |-> NoTarget]
  /\ down = {}
  /\ disabled = FALSE
  /\ feedback = [message |-> "", status |-> "none"]
  /\ calls = <<>>
  /\ nPresses = 0
  /\ nLoads = 0

\* the loadedmetadata listener (lines 203-206)
MainLoadedMetadata(size) ==
  /\ nLoads < MaxLoads
  /\ nLoads' = nLoads + 1
  /\ videoWidth' = size[1]
  /\ videoHeight' = size[2]
  /\ rectangles' = updateRectSizeFromVideoMain(rectangles, size[1], size[2])
  /\ UNCHANGED <<minWidthRatio, pointers, submission, nPresses>>

\* pointerdown on a rectangle (line 122)
MainPointerDown(r, event) ==
  /\ event.pointerId \notin down
  /\ nPresses < MaxPresses
  /\ nPresses' = nPresses + 1
  /\ down' = down \cup {event.pointerId}
  /\ interaction' = pointerDownMain(rectangles, interaction, event, r)
  /\ UNCHANGED <<geometry, captures, submission, nLoads>>

\* pointermove on the document (line 125)
MainPointerMove(event, bounds) ==
  /\ rectangles' = pointerMoveMain(rectangles, interaction, event, bounds)
  /\ UNCHANGED <<videoWidth, videoHeight, minWidthRatio, pointers, submission,
                 nPresses, nLoads>>

\* pointerup and pointercancel on the document (lines 126-127)
MainPointerUp(p) ==
  /\ p \in down
  /\ down' = down \ {p}
  /\ interaction' = endDragMain
  /\ UNCHANGED <<geometry, captures, submission, nPresses, nLoads>>

MainPointerCancel(p) ==
  /\ p \in down
  /\ down' = down \ {p}
  /\ interaction' = endDragMain
  /\ UNCHANGED <<geometry, captures, submission, nPresses, nLoads>>

\* handleConfirm of main.js (lines 144-199, attached to the confirm button by
\* line 201) is, statement for statement, the handleConfirm of part_000: the
\* click and the steps that follow each promise are the actions above.
MainClickConfirm == ClickConfirm
MainFetchRejects(i) == FetchRejects(i)
MainFetchResolves(i, ok) == FetchResolves(i, ok)
MainErrorJsonSettles(i, errorBody) == ErrorJsonSettles(i, errorBody)
MainResultJsonSettles(i, resultBody) == ResultJsonSettles(i, resultBody)

\* <<clientX, clientY>> of the pointermove events of this controller
MainMovePoints == {<<1, 1>>, <<5, 5>>}

NextMain ==
  \/ \E size \in MainVideoSizes : MainLoadedMetadata(size)
  \/ \E r \in Rects, pt \in PressPoints, p \in PointerIds :
       MainPointerDown(r, Event(pt[1], pt[2], p))
  \/ \E pt \in MainMovePoints, b \in Layouts : MainPointerMove(Event(pt[1], pt[2], 1), b)
  \/ \E p \in PointerIds : MainPointerUp(p)
  \/ \E p \in PointerIds : MainPointerCancel(p)
  \/ MainClickConfirm
  \/ \E i \in 1..MaxCalls : MainFetchRejects(i)
  \/ \E i \in 1..MaxCalls, ok \in BOOLEAN : MainFetchResolves(i, ok)
  \/ \E i \in 1..MaxCalls, e \in ErrorBodies : MainErrorJsonSettles(i, e)
  \/ \E i \in 1..MaxCalls, b \in ResultBodies : MainResultJsonSettles(i, b)

MainSpec == InitMain /\ [][NextMain]_vars

\* the region has been sized and positioned by updateRectSizeFromVideo
sizedMain(rect) == rect.left # NULL /\ rect.top # NULL

\* C21: in the move-only controller, after any sequence of metadata,
\* pointer-down, pointer-move and pointer-up/cancel events, every region
\* that a video of positive width and height has sized has
\* 0 < widthRatio <= 1, 0 < heightRatio <= 1, 0 <= left <= 1 - widthRatio
\* and 0 <= top <= 1 - heightRatio.
C21_ScaledBoxContained ==
  \A r \in Rects :
    sizedMain(rectangles[r]) =>
      /\ Lt(Zero, rectangles[r].widthRatio) /\ Le(rectangles[r].widthRatio, One)
      /\ Lt(Zero, rectangles[r].heightRatio) /\ Le(rectangles[r].heightRatio, One)
      /\ Le(Zero, rectangles[r].left)
      /\ Le(rectangles[r].left, Sub(One, rectangles[r].widthRatio))
      /\ Le(Zero, rectangles[r].top)
      /\ Le(rectangles[r].top, Sub(One, rectangles[r].heightRatio))
====
